---------------------------- MODULE Spec2Model ----------------------------
(***************************************************************************)
(* Model of the two tools of the Narzedziownik APP plugin:                 *)
(*   features/recount.py              renumbering of the field oznaczenie  *)
(*   features/create_template_pog.py  creation of the POG template layers  *)
(* Text values are sequences of one-character strings, so that strip(),    *)
(* the regular expressions, int() and the decimal formatting of the source *)
(* are computed character by character.                                    *)
(***************************************************************************)
EXTENDS Integers, Sequences, FiniteSets, TLC

(***************************************************************************)
(* Bounds of the model                                                     *)
(***************************************************************************)
MaxNum == 5
MinNum == 0 - 1
MaxFeatures == 2
MaxRuns == 2
MaxTemplates == 3

(***************************************************************************)
(* Text helpers: Python str, re and int as used by the source              *)
(***************************************************************************)
DigitChars == <<"0", "1", "2", "3", "4", "5", "6", "7", "8", "9">>

Digits == {DigitChars[i] : i \in 1..10}

IsDigit(c) == c \in Digits

\* the set of the elements of a sequence
Range(q) == {q[i] : i \in 1..Len(q)}

\* str.strip(): the text without leading and trailing whitespace
RECURSIVE LStrip(_)
LStrip(s) == IF s # <<>> /\ Head(s) = " " THEN LStrip(Tail(s)) ELSE s

RECURSIVE RStrip(_)
RStrip(s) ==
  IF s # <<>> /\ s[Len(s)] = " " THEN RStrip(SubSeq(s, 1, Len(s) - 1)) ELSE s

Strip(s) == RStrip(LStrip(s))

\* re.search(r'(\d+)', text): m.start(1) as a 1-based position, 0 for no match
DigitRunStart(s) ==
  IF \E i \in 1..Len(s) : IsDigit(s[i])
  THEN CHOOSE i \in 1..Len(s) :
         IsDigit(s[i]) /\ \A j \in 1..(i - 1) : ~IsDigit(s[j])
  ELSE 0

\* the greedy \d+ starting at position i: the position of its last digit
RECURSIVE DigitRunEnd(_, _)
DigitRunEnd(s, i) ==
  IF i < Len(s) /\ IsDigit(s[i + 1]) THEN DigitRunEnd(s, i + 1) ELSE i

DigitValue(c) == (CHOOSE i \in 1..10 : DigitChars[i] = c) - 1

\* int(m.group(1)) of a run of decimal digits
RECURSIVE ParseInt(_)
ParseInt(d) ==
  IF d = <<>> THEN 0
  ELSE 10 * ParseInt(SubSeq(d, 1, Len(d) - 1)) + DigitValue(d[Len(d)])

\* f"{new_num}": decimal, no padding
RECURSIVE IntToStr(_)
IntToStr(n) ==
  IF n < 10 THEN <<DigitChars[n + 1]>>
  ELSE IntToStr(n \div 10) \o <<DigitChars[(n % 10) + 1]>>

(***************************************************************************)
(* The pure functions of recount.py                                        *)
(***************************************************************************)
SetMax(S) == CHOOSE m \in S : \A x \in S : x <= m

SetMin(S) == CHOOSE m \in S : \A x \in S : m <= x

\* [n for n in range(1, end + 1) if n not in nums], from n upwards
RECURSIVE MissingFrom(_, _, _)
MissingFrom(n, end, nums) ==
  IF n > end THEN <<>>
  ELSE (IF n \in nums THEN <<>> ELSE <<n>>) \o MissingFrom(n + 1, end, nums)

\* variant: the range starts at the smallest number present instead of 1
compute_missing_from_min(nums) ==
  IF nums = {} THEN <<>> ELSE MissingFrom(SetMin(nums), SetMax(nums), nums)

compute_missing_numbers(nums) ==
  IF nums = {} THEN <<>> ELSE MissingFrom(1, SetMax(nums), nums)

\* sorted(nums)
RECURSIVE Sorted(_)
Sorted(S) ==
  IF S = {} THEN <<>> ELSE <<SetMin(S)>> \o Sorted(S \ {SetMin(S)})

\* variant: the numbers are enumerated in descending order
build_reindex_mapping_desc(nums) ==
  LET sorted_nums == Sorted(nums)
  IN  [old \in Range(sorted_nums) |->
         Len(sorted_nums) + 1
           - (CHOOSE i \in 1..Len(sorted_nums) : sorted_nums[i] = old)]

\* variant: the new numbers start at 0 (i instead of i + 1)
build_reindex_mapping_zero_based(nums) ==
  LET sorted_nums == Sorted(nums)
  IN  [old \in Range(sorted_nums) |->
         (CHOOSE i \in 1..Len(sorted_nums) : sorted_nums[i] = old) - 1]

\* {old: i + 1 for i, old in enumerate(sorted_nums)}
build_reindex_mapping(nums) ==
  LET sorted_nums == Sorted(nums)
  IN  [old \in Range(sorted_nums) |->
         CHOOSE i \in 1..Len(sorted_nums) : sorted_nums[i] = old]

(***************************************************************************)
(* State                                                                   *)
(***************************************************************************)
VARIABLES
  tool,            \* which menu action this behaviour runs
  \* ---- recount.py: the host layer ----
  layerKind,       \* "vector" or "raster": isinstance(layer, QgsVectorLayer)
  fields,          \* names of the layer's fields
  committed,       \* fid -> (field -> text): the attribute values persisted
  buffer,          \* <<fid, field>> -> text: uncommitted changes of the edit
  editing,         \* whether the layer is in an edit session
  \* ---- recount.py: run() ----
  pc,              \* position in run()
  lokalny_field,   \* result of _find_lokalny_field, "" for None
  oznaczenia_info, \* fid -> [raw, num, prefix, suffix]; num = NoNum for None
  nums,            \* set of the numbers found
  missing,         \* result of _compute_missing_numbers
  resp_fix,        \* the answer to the confirmation question, "" before it
  mapping,         \* result of _build_reindex_mapping
  todo,            \* features the loop of the update has not visited yet
  dialogs,         \* dialogs shown by the current run, in order
  runs,            \* number of invocations of run() so far
  prevOutcome,     \* how the previous invocation ended, "" before the second
  outcome,         \* how the current invocation ended, "" while it runs
  atStart,         \* value of committed when the current run started
  featuresRead,    \* whether the current run has enumerated the features
  written,         \* <<fid, field>> -> text passed to changeAttributeValue
  \* ---- create_template_pog.py ----
  template_layers, \* the loaded templates: [name, wkb, memValid, qml]
  tpc,             \* position in run()
  crs_authid,      \* chosen coordinate reference system, <<>> before the choice
  groups,          \* names of the groups of the layer tree root
  groupLayers,     \* layers of the group POG SZABLONY, top first
  projectLayers,   \* layers added to the project
  created_layers,  \* names collected by run()
  styled,          \* layers a style file was loaded onto
  ti,              \* index of the next template of the loop
  tdialogs         \* dialogs and message-bar notes shown, in order

recVars == <<layerKind, fields, committed, buffer, editing, pc, lokalny_field,
             oznaczenia_info, nums, missing, resp_fix, mapping, todo,
             dialogs, runs, prevOutcome, outcome, atStart, featuresRead,
             written>>

tplVars == <<template_layers, tpc, crs_authid, groups, groupLayers,
             projectLayers, created_layers, styled, ti, tdialogs>>

vars == <<tool, recVars, tplVars>>

(***************************************************************************)
(* Inputs: the attribute texts the features of a layer are drawn from      *)
(***************************************************************************)
OznSamples ==
  << <<"A", "1">>,
     <<" ", "A", "2", " ">>,
     <<"A", "-", "3", "B">>,
     <<"A", "0">>,
     <<"0", "4", "B", "7">>,
     <<"A", "B">> >>

LokSamples ==
  << <<"1", "P", "O", "G", "-", "1", "O", "U", "Z">>,
     <<"N", "O", "H", "Y", "P", "H", "E", "N", "5">>,
     <<" ", "1", "P", "O", "G", "-", "0", "7", "-", "2">>,
     <<"-", "1", "O", "U", "Z">>,
     <<"1", "P", "O", "G", "-", "X", "1">> >>

NSamples == Len(OznSamples) * Len(LokSamples)

SampleOzn(k) == OznSamples[(k \div Len(LokSamples)) + 1]

SampleLok(k) == LokSamples[(k % Len(LokSamples)) + 1]

FieldUniverse == {"oznaczenie", "lokalnyId", "loklaneId"}

NoNum == 0 - 1

EmptyMap == [x \in {} |-> 0]

(***************************************************************************)
(* recount.py: helpers                                                     *)
(***************************************************************************)
\* variant: the last candidate is returned when none is a field of the layer
find_lokalny_field_last_cand(field_names) ==
  IF "lokalnyId" \in field_names THEN "lokalnyId" ELSE "loklaneId"

\* for cand in ("lokalnyId", "loklaneId"): if cand in field_names: return cand
find_lokalny_field(field_names) ==
  IF "lokalnyId" \in field_names THEN "lokalnyId"
  ELSE IF "loklaneId" \in field_names THEN "loklaneId"
  ELSE ""

\* the value a reader of the layer sees: the edit buffer over the provider
LayerValue(fid, fld) ==
  IF <<fid, fld>> \in DOMAIN buffer THEN buffer[<<fid, fld>>]
  ELSE committed[fid][fld]

\* one entry of the dictionary built by _collect_numbers_from_oznaczenie
OznInfo(val) ==
  LET text == Strip(val)
      s    == DigitRunStart(text)
      e    == DigitRunEnd(text, s)
  IN  IF s = 0
      THEN [raw |-> text, num |-> NoNum, prefix |-> <<>>, suffix |-> <<>>]
      ELSE [raw    |-> text,
            num    |-> ParseInt(SubSeq(text, s, e)),
            prefix |-> SubSeq(text, 1, s - 1),
            suffix |-> SubSeq(text, e + 1, Len(text))]

collect_numbers_from_oznaczenie(oznaczenie_field) ==
  [fid \in DOMAIN committed |-> OznInfo(LayerValue(fid, oznaczenie_field))]

\* variant: the suffix is not written back
NewOzn_no_suffix(info, new_num) == info.prefix \o IntToStr(new_num)

\* new_ozn = f"{info['prefix']}{new_num}{info['suffix']}"
NewOzn(info, new_num) == info.prefix \o IntToStr(new_num) \o info.suffix

\* re.match(r"^([^-\n\r]+-)(\d+)(.*)$", lok_text): position of the hyphen that
\* ends group 1, 0 when the text does not match
LokHyphen(text) ==
  IF \E h \in 2..(Len(text) - 1) :
       /\ text[h] = "-"
       /\ \A j \in 1..(h - 1) : text[j] # "-"
       /\ IsDigit(text[h + 1])
  THEN CHOOSE h \in 2..(Len(text) - 1) :
         text[h] = "-" /\ \A j \in 1..(h - 1) : text[j] # "-"
  ELSE 0

\* variant: group 2 is (\d), one digit, instead of (\d+)
NewLok_one_digit(text, new_num) ==
  LET h == LokHyphen(text)
  IN  SubSeq(text, 1, h) \o IntToStr(new_num) \o SubSeq(text, h + 2, Len(text))

\* new_lok = f"{m.group(1)}{new_num}{m.group(3)}"
NewLok(text, new_num) ==
  LET h == LokHyphen(text)
      e == DigitRunEnd(text, h + 1)
  IN  SubSeq(text, 1, h) \o IntToStr(new_num) \o SubSeq(text, e + 1, Len(text))

\* the provider's values with the changes of an edit buffer applied
Applied(base, changes) ==
  [fid \in DOMAIN base |->
     [fld \in DOMAIN base[fid] |->
        IF <<fid, fld>> \in DOMAIN changes THEN changes[<<fid, fld>>]
        ELSE base[fid][fld]]]

\* a function extended or overwritten at one point
Put(f, k, v) == [x \in (DOMAIN f) \cup {k} |-> IF x = k THEN v ELSE f[x]]

(***************************************************************************)
(* recount.py: run(), one action per stretch of code between two dialogs,  *)
(* and the edit session of _update_oznaczenie_and_lokalnyId step by step   *)
(***************************************************************************)
Fids == DOMAIN committed

\* a return of run(): the invocation is over
Return(how) == pc' = "done" /\ outcome' = how

Show(d) == dialogs' = Append(dialogs, d)

\* layer = iface.activeLayer(); if not isinstance(layer, QgsVectorLayer): ...
RunCheckLayer ==
  /\ tool = "recount" /\ pc = "start"
  /\ IF layerKind # "vector"
     THEN Show("warn_not_vector") /\ Return("not_vector")
     ELSE pc' = "fields" /\ UNCHANGED <<dialogs, outcome>>
  /\ UNCHANGED <<tool, resp_fix, layerKind, fields, committed, buffer, editing,
                 lokalny_field, oznaczenia_info, nums, missing, mapping, todo,
                 runs, prevOutcome, atStart, featuresRead, written, tplVars>>

\* krok 1: sprawdzenie pol
RunCheckFields ==
  /\ tool = "recount" /\ pc = "fields"
  /\ IF "oznaczenie" \notin fields
     THEN /\ Show("warn_no_oznaczenie") /\ Return("no_oznaczenie")
          /\ UNCHANGED lokalny_field
     ELSE /\ lokalny_field' = find_lokalny_field(fields)
          /\ IF lokalny_field' = ""
             THEN Show("warn_no_lokalnyId") /\ Return("no_lokalnyId")
             ELSE pc' = "analyse" /\ UNCHANGED <<dialogs, outcome>>
  /\ UNCHANGED <<tool, resp_fix, layerKind, fields, committed, buffer, editing,
                 oznaczenia_info, nums, missing, mapping, todo, runs,
                 prevOutcome, atStart, featuresRead, written, tplVars>>

\* krok 2 and krok 3: analysis of the numbering, up to the dialog it ends in
RunAnalyse ==
  /\ tool = "recount" /\ pc = "analyse"
  /\ oznaczenia_info' = collect_numbers_from_oznaczenie("oznaczenie")
  /\ featuresRead' = TRUE
  /\ nums' = {oznaczenia_info'[f].num : f \in DOMAIN oznaczenia_info'} \ {NoNum}
  /\ IF nums' = {}
     THEN /\ Show("info_no_numbers") /\ Return("no_numbers")
          /\ UNCHANGED missing
     ELSE /\ missing' = compute_missing_numbers(nums')
          /\ IF missing' = <<>>
             THEN Show("info_no_gaps") /\ Return("no_gaps")
             ELSE Show("question") /\ pc' = "question" /\ UNCHANGED outcome
  /\ UNCHANGED <<tool, resp_fix, layerKind, fields, committed, buffer, editing,
                 lokalny_field, mapping, todo, runs, prevOutcome, atStart,
                 written, tplVars>>

\* variant: the run stops only on the answer No (resp_fix == QMessageBox.No)
RunAnswer_unless_no(answer) ==
  /\ tool = "recount" /\ pc = "question"
  /\ resp_fix' = answer
  /\ IF answer = "No"
     THEN Return("declined") /\ UNCHANGED mapping
     ELSE /\ mapping' = build_reindex_mapping(nums)
          /\ pc' = "update" /\ UNCHANGED outcome
  /\ UNCHANGED <<tool, layerKind, fields, committed, buffer, editing,
                 lokalny_field, oznaczenia_info, nums, missing, todo, dialogs,
                 runs, prevOutcome, atStart, featuresRead, written, tplVars>>

\* krok 4 and the first line of krok 5: the answer to QMessageBox.question
RunAnswer(answer) ==
  /\ tool = "recount" /\ pc = "question"
  /\ resp_fix' = answer
  /\ IF answer # "Yes"
     THEN Return("declined") /\ UNCHANGED mapping
     ELSE /\ mapping' = build_reindex_mapping(nums)
          /\ pc' = "update" /\ UNCHANGED outcome
  /\ UNCHANGED <<tool, layerKind, fields, committed, buffer, editing,
                 lokalny_field, oznaczenia_info, nums, missing, todo, dialogs,
                 runs, prevOutcome, atStart, featuresRead, written, tplVars>>

\* the index check of the update and the entry of "with edit(layer)"
UpdateBegin ==
  /\ tool = "recount" /\ pc = "update"
  /\ IF "oznaczenie" \notin fields \/ lokalny_field \notin fields
     THEN pc' = "finish" /\ UNCHANGED <<editing, todo, featuresRead>>
     ELSE /\ editing' = TRUE
          /\ todo' = Fids
          /\ featuresRead' = TRUE
          /\ pc' = "loop"
  /\ UNCHANGED <<tool, resp_fix, layerKind, fields, committed, buffer, lokalny_field,
                 oznaczenia_info, nums, missing, mapping, dialogs, runs,
                 prevOutcome, outcome, atStart, written, tplVars>>

\* the changes one iteration of the loop makes for feature f: <<fid, field>> -> text
FeatureChanges(f) ==
  LET info     == oznaczenia_info[f]
      old_num  == info.num
      new_num  == mapping[old_num]
      lok_text == Strip(LayerValue(f, lokalny_field))
      ozn      == Put(EmptyMap, <<f, "oznaczenie">>, NewOzn(info, new_num))
  IN  IF old_num = NoNum \/ old_num \notin DOMAIN mapping THEN EmptyMap
      ELSE IF LokHyphen(lok_text) # 0
           THEN Put(ozn, <<f, lokalny_field>>, NewLok(lok_text, new_num))
           ELSE ozn

\* f overwritten by g where g is defined
Over(f, g) ==
  [x \in (DOMAIN f) \cup (DOMAIN g) |-> IF x \in DOMAIN g THEN g[x] ELSE f[x]]

\* variant: "with edit(layer)" is inside the loop, one commit per feature
UpdateFeature_own_edit(f) ==
  /\ tool = "recount" /\ pc = "loop" /\ f \in todo
  /\ todo' = todo \ {f}
  /\ committed' = Applied(committed, FeatureChanges(f))
  /\ written' = Over(written, FeatureChanges(f))
  /\ UNCHANGED <<tool, resp_fix, layerKind, fields, buffer, editing, pc,
                 lokalny_field, oznaczenia_info, nums, missing, mapping,
                 dialogs, runs, prevOutcome, outcome, atStart, featuresRead,
                 tplVars>>

\* one iteration of "for f in layer.getFeatures()" inside the edit session
UpdateFeature(f) ==
  /\ tool = "recount" /\ pc = "loop" /\ f \in todo
  /\ todo' = todo \ {f}
  /\ buffer' = Over(buffer, FeatureChanges(f))
  /\ written' = Over(written, FeatureChanges(f))
  /\ UNCHANGED <<tool, resp_fix, layerKind, fields, committed, editing, pc,
                 lokalny_field, oznaczenia_info, nums, missing, mapping,
                 dialogs, runs, prevOutcome, outcome, atStart, featuresRead,
                 tplVars>>

\* an exception inside the with block: edit.__exit__ rolls the buffer back and
\* the exception leaves run()
UpdateRaises ==
  /\ tool = "recount" /\ pc = "loop" /\ todo # {}
  /\ buffer' = EmptyMap
  /\ editing' = FALSE
  /\ Return("exception")
  /\ UNCHANGED <<tool, resp_fix, layerKind, fields, committed, lokalny_field,
                 oznaczenia_info, nums, missing, mapping, todo, dialogs, runs,
                 prevOutcome, atStart, featuresRead, written, tplVars>>

\* the end of the with block: commitChanges() succeeds
UpdateCommit ==
  /\ tool = "recount" /\ pc = "loop" /\ todo = {}
  /\ committed' = Applied(committed, buffer)
  /\ buffer' = EmptyMap
  /\ editing' = FALSE
  /\ pc' = "finish"
  /\ UNCHANGED <<tool, resp_fix, layerKind, fields, lokalny_field, oznaczenia_info,
                 nums, missing, mapping, todo, dialogs, runs, prevOutcome,
                 outcome, atStart, featuresRead, written, tplVars>>

\* the end of the with block: commitChanges() fails, edit.__exit__ raises
\* QgsEditError; the changes stay in the buffer of the open edit session
UpdateCommitFails ==
  /\ tool = "recount" /\ pc = "loop" /\ todo = {}
  /\ Return("exception")
  /\ UNCHANGED <<tool, resp_fix, layerKind, fields, committed, buffer, editing,
                 lokalny_field, oznaczenia_info, nums, missing, mapping, todo,
                 dialogs, runs, prevOutcome, atStart, featuresRead, written,
                 tplVars>>

\* the closing QMessageBox.information of run()
RunFinish ==
  /\ tool = "recount" /\ pc = "finish"
  /\ Show("info_completed") /\ Return("completed")
  /\ UNCHANGED <<tool, resp_fix, layerKind, fields, committed, buffer, editing,
                 lokalny_field, oznaczenia_info, nums, missing, mapping, todo,
                 runs, prevOutcome, atStart, featuresRead, written, tplVars>>

\* the user triggers the menu action again on the same layer
Reinvoke ==
  /\ tool = "recount" /\ pc = "done" /\ runs < MaxRuns /\ ~editing
  /\ pc' = "start"
  /\ runs' = runs + 1
  /\ prevOutcome' = outcome
  /\ outcome' = ""
  /\ atStart' = committed
  /\ lokalny_field' = ""
  /\ oznaczenia_info' = <<>>
  /\ nums' = {}
  /\ missing' = <<>>
  /\ mapping' = EmptyMap
  /\ todo' = {}
  /\ dialogs' = <<>>
  /\ featuresRead' = FALSE
  /\ written' = EmptyMap
  /\ resp_fix' = ""
  /\ UNCHANGED <<tool, layerKind, fields, committed, buffer, editing, tplVars>>

\* the features of a layer: n features, each one of the samples; a feature has
\* a value for every field of the layer and for no other
SampleFeatures(flds, ks) ==
  [fid \in DOMAIN ks |->
     [fld \in flds |->
        IF fld = "oznaczenie" THEN SampleOzn(ks[fid]) ELSE SampleLok(ks[fid])]]

TplIdle ==
  /\ template_layers = <<>> /\ tpc = "idle" /\ crs_authid = <<>>
  /\ groups = {} /\ groupLayers = <<>> /\ projectLayers = {}
  /\ created_layers = <<>> /\ styled = {} /\ ti = 0 /\ tdialogs = <<>>

RecRunStart ==
  /\ pc = "start" /\ runs = 1 /\ prevOutcome = "" /\ outcome = ""
  /\ buffer = EmptyMap /\ editing = FALSE /\ lokalny_field = ""
  /\ oznaczenia_info = <<>> /\ nums = {} /\ missing = <<>>
  /\ mapping = EmptyMap /\ todo = {} /\ dialogs = <<>>
  /\ featuresRead = FALSE /\ written = EmptyMap /\ resp_fix = ""

InitRecount ==
  /\ tool = "recount"
  /\ \/ /\ layerKind = "raster" /\ fields = {} /\ committed = <<>>
     \/ /\ layerKind = "vector"
        /\ fields \in SUBSET FieldUniverse
        /\ \E n \in 0..MaxFeatures :
             \E ks \in [1..n -> 0..(NSamples - 1)] :
               /\ \A i \in 1..n : \A j \in 1..n : i < j => ks[i] <= ks[j]
               /\ committed = SampleFeatures(fields, ks)
  /\ atStart = committed
  /\ RecRunStart
  /\ TplIdle

NextRecount ==
  \/ RunCheckLayer
  \/ RunCheckFields
  \/ RunAnalyse
  \/ \E answer \in {"Yes", "No", "Dismissed"} : RunAnswer(answer)
  \/ UpdateBegin
  \/ \E f \in Fids : UpdateFeature(f)
  \/ UpdateRaises
  \/ UpdateCommit
  \/ UpdateCommitFails
  \/ RunFinish
  \/ Reinvoke

SpecRecount == InitRecount /\ [][NextRecount]_vars

(***************************************************************************)
(* The pure functions applied to arbitrary sets of integers                *)
(***************************************************************************)
RecIdle ==
  /\ layerKind = "raster" /\ fields = {} /\ committed = <<>>
  /\ atStart = <<>> /\ RecRunStart

PureMissing ==
  /\ tool = "pure" /\ pc = "start"
  /\ missing' = compute_missing_numbers(nums)
  /\ pc' = "missing"
  /\ UNCHANGED <<tool, resp_fix, layerKind, fields, committed, buffer, editing,
                 lokalny_field, oznaczenia_info, nums, mapping, todo, dialogs,
                 runs, prevOutcome, outcome, atStart, featuresRead, written,
                 tplVars>>

PureMapping ==
  /\ tool = "pure" /\ pc = "missing"
  /\ mapping' = build_reindex_mapping(nums)
  /\ pc' = "done"
  /\ UNCHANGED <<tool, resp_fix, layerKind, fields, committed, buffer, editing,
                 lokalny_field, oznaczenia_info, nums, missing, todo, dialogs,
                 runs, prevOutcome, outcome, atStart, featuresRead, written,
                 tplVars>>

InitPure ==
  /\ tool = "pure"
  /\ layerKind = "raster" /\ fields = {} /\ committed = <<>> /\ atStart = <<>>
  /\ pc = "start" /\ runs = 1 /\ prevOutcome = "" /\ outcome = ""
  /\ buffer = EmptyMap /\ editing = FALSE /\ lokalny_field = ""
  /\ oznaczenia_info = <<>> /\ missing = <<>>
  /\ mapping = EmptyMap /\ todo = {} /\ dialogs = <<>>
  /\ featuresRead = FALSE /\ written = EmptyMap /\ resp_fix = ""
  /\ nums \in SUBSET (MinNum..MaxNum)
  /\ TplIdle

NextPure == PureMissing \/ PureMapping

SpecPure == InitPure /\ [][NextPure]_vars

(***************************************************************************)
(* create_template_pog.py                                                  *)
(***************************************************************************)
GroupName == "POG SZABLONY"

\* the templates _load_template_layers can return: name of the file without
\* its extension, display string of the geometry type, names of the fields
TemplateSamples ==
  << [name   |-> "AktPlanowaniaPrzestrzennego",
      wkb    |-> <<"M", "u", "l", "t", "i", "P", "o", "l", "y", "g", "o", "n">>,
      fields |-> {"lokalnyId", "tytul"}],
     [name   |-> "Notatki",
      wkb    |-> <<"P", "o", "i", "n", "t", "Z", "M">>,
      fields |-> {"name"}],
     [name   |-> "StrefaPlanistyczna",
      wkb    |-> <<"M", "u", "l", "t", "i", "P", "o", "l", "y", "g", "o", "n", "Z">>,
      fields |-> {"oznaczenie", "lokalnyId"}] >>

\* the four entries of items; the text after the code is abridged
ItemText(code) ==
  <<"E", "P", "S", "G", ":">> \o code \o <<" ", "-", " ", "U", "k", "l", "a", "d">>

Items ==
  << ItemText(<<"2", "1", "7", "6">>), ItemText(<<"2", "1", "7", "7">>),
     ItemText(<<"2", "1", "7", "8">>), ItemText(<<"2", "1", "7", "9">>) >>

\* re.match(r"^(EPSG:\d+)", item.strip()): group 1, <<>> for no match
MatchAuthid(item) ==
  LET t == Strip(item)
  IN  IF /\ Len(t) >= 6
         /\ SubSeq(t, 1, 5) = <<"E", "P", "S", "G", ":">>
         /\ IsDigit(t[6])
      THEN SubSeq(t, 1, DigitRunEnd(t, 6))
      ELSE <<>>

\* re.sub(r"(Z|M|ZM)$", "", disp), "Polygon" for an empty result
geom_def_from_template(disp) ==
  LET n == Len(disp)
      cut == IF n >= 2 /\ SubSeq(disp, n - 1, n) = <<"Z", "M">> THEN n - 2
             ELSE IF n >= 1 /\ disp[n] \in {"Z", "M"} THEN n - 1
             ELSE n
  IN  IF cut = 0 THEN <<"P", "o", "l", "y", "g", "o", "n">>
      ELSE SubSeq(disp, 1, cut)

\* the memory layer built from template i, or NoLayer for None
NoLayer == [tmpl |-> 0]

create_memory_layer_from_template(i, crs) ==
  LET template_layer == template_layers[i]
  IN  IF ~template_layer.memValid THEN NoLayer
      ELSE [tmpl   |-> i,
            name   |-> template_layer.name,
            geom   |-> geom_def_from_template(template_layer.wkb),
            crs    |-> crs,
            fields |-> template_layer.fields]

TplReturn == tpc' = "done"

TplShow(kind, names) ==
  tdialogs' = Append(tdialogs, [kind |-> kind, names |-> names])

\* from the start of run() to the choice dialog
TplLoad ==
  /\ tool = "template" /\ tpc = "start"
  /\ IF template_layers = <<>>
     THEN TplShow("warn_no_templates", <<>>) /\ TplReturn
     ELSE /\ tpc' = "choose"
          /\ TplShow("choose_crs",
                     [i \in 1..Len(template_layers) |-> template_layers[i].name])
  /\ UNCHANGED <<tool, recVars, template_layers, crs_authid, groups,
                 groupLayers, projectLayers, created_layers, styled, ti>>

\* the answer to QInputDialog.getItem, up to the start of the loop
TplChoose(item, ok) ==
  /\ tool = "template" /\ tpc = "choose"
  /\ IF ~ok
     THEN /\ TplShow("info_cancelled", <<>>) /\ TplReturn
          /\ UNCHANGED <<crs_authid, groups, ti>>
     ELSE IF MatchAuthid(item) = <<>>
     THEN /\ TplShow("warn_bad_crs", <<>>) /\ TplReturn
          /\ UNCHANGED <<crs_authid, groups, ti>>
     ELSE /\ crs_authid' = MatchAuthid(item)
          /\ groups' = groups \cup {GroupName}
          /\ ti' = 1
          /\ tpc' = "create"
          /\ UNCHANGED tdialogs
  /\ UNCHANGED <<tool, recVars, template_layers, groupLayers, projectLayers,
                 created_layers, styled>>

\* variant: a template whose layer cannot be built ends the loop (break)
TplCreateLayer_break ==
  /\ tool = "template" /\ tpc = "create" /\ ti <= Len(template_layers)
  /\ LET mem_layer == create_memory_layer_from_template(ti, crs_authid)
     IN  IF mem_layer = NoLayer
         THEN /\ ti' = Len(template_layers) + 1
              /\ UNCHANGED <<projectLayers, groupLayers, styled, created_layers>>
         ELSE /\ projectLayers' = projectLayers \cup {mem_layer}
              /\ groupLayers' = <<mem_layer>> \o groupLayers
              /\ styled' = IF template_layers[ti].qml THEN styled \cup {ti}
                           ELSE styled
              /\ created_layers' = Append(created_layers, mem_layer.name)
              /\ ti' = ti + 1
  /\ UNCHANGED <<tool, recVars, template_layers, tpc, crs_authid, groups,
                 tdialogs>>

\* one iteration of "for tmpl in template_layers"
TplCreateLayer ==
  /\ tool = "template" /\ tpc = "create" /\ ti <= Len(template_layers)
  /\ LET mem_layer == create_memory_layer_from_template(ti, crs_authid)
     IN  IF mem_layer = NoLayer
         THEN UNCHANGED <<projectLayers, groupLayers, styled, created_layers>>
         ELSE /\ projectLayers' = projectLayers \cup {mem_layer}
              /\ groupLayers' = <<mem_layer>> \o groupLayers
              /\ styled' = IF template_layers[ti].qml THEN styled \cup {ti}
                           ELSE styled
              /\ created_layers' = Append(created_layers, mem_layer.name)
  /\ ti' = ti + 1
  /\ UNCHANGED <<tool, recVars, template_layers, tpc, crs_authid, groups,
                 tdialogs>>

\* the report after the loop
TplReport ==
  /\ tool = "template" /\ tpc = "create" /\ ti > Len(template_layers)
  /\ IF created_layers = <<>>
     THEN TplShow("warn_none_created", <<>>)
     ELSE tdialogs' = tdialogs \o
            << [kind |-> "info_created", names |-> created_layers],
               [kind |-> "bar_success", names |-> <<>>] >>
  /\ TplReturn
  /\ UNCHANGED <<tool, recVars, template_layers, crs_authid, groups,
                 groupLayers, projectLayers, created_layers, styled, ti>>

InitTemplate ==
  /\ tool = "template"
  /\ RecIdle
  /\ \E n \in 0..MaxTemplates :
       \E ks \in [1..n -> 1..Len(TemplateSamples)] :
         \E valid \in [1..n -> BOOLEAN] :
           \E qml \in [1..n -> BOOLEAN] :
             /\ \A i \in 1..n : \A j \in 1..n : i < j => ks[i] <= ks[j]
             /\ template_layers =
                  [i \in 1..n |->
                     [name     |-> TemplateSamples[ks[i]].name,
                      wkb      |-> TemplateSamples[ks[i]].wkb,
                      fields   |-> TemplateSamples[ks[i]].fields,
                      memValid |-> valid[i],
                      qml      |-> qml[i]]]
  /\ tpc = "start" /\ crs_authid = <<>>
  /\ groups \in {{}, {GroupName}}
  /\ groupLayers = <<>> /\ projectLayers = {}
  /\ created_layers = <<>> /\ styled = {} /\ ti = 0 /\ tdialogs = <<>>

NextTemplate ==
  \/ TplLoad
  \/ \E i \in 1..Len(Items) : \E ok \in BOOLEAN : TplChoose(Items[i], ok)
  \/ TplCreateLayer
  \/ TplReport

SpecTemplate == InitTemplate /\ [][NextTemplate]_vars

(***************************************************************************)
(* Vocabulary of the properties, stated without the operators of the model *)
(* where the source's own computation is what is being checked             *)
(***************************************************************************)
StrictlyAscending(q) == \A i \in 1..Len(q) : \A j \in 1..Len(q) : i < j => q[i] < q[j]

HasDigit(t) == \E i \in 1..Len(t) : IsDigit(t[i])

\* <<i, j>>: the first maximal run of digits of t occupies positions i..j
FirstRun(t) ==
  CHOOSE r \in (1..Len(t)) \X (1..Len(t)) :
    /\ r[1] <= r[2]
    /\ \A k \in r[1]..r[2] : IsDigit(t[k])
    /\ \A k \in 1..(r[1] - 1) : ~IsDigit(t[k])
    /\ r[2] = Len(t) \/ ~IsDigit(t[r[2] + 1])

OldNumber(t) == ParseInt(SubSeq(t, FirstRun(t)[1], FirstRun(t)[2]))

\* t with its first run of digits replaced by n in decimal
WithNumber(t, n) ==
  SubSeq(t, 1, FirstRun(t)[1] - 1) \o IntToStr(n)
    \o SubSeq(t, FirstRun(t)[2] + 1, Len(t))

\* the designations the current run started from, and their numbers
OznAtStart(f) == atStart[f]["oznaczenie"]

Numbered == {f \in DOMAIN atStart : HasDigit(OznAtStart(f))}

OldNums == {OldNumber(OznAtStart(f)) : f \in Numbered}

\* 1-based rank of n among the numbers present
Rank(n) == Cardinality({x \in OldNums : x <= n})

NewNumber(f) == Rank(OldNumber(OznAtStart(f)))

\* position of the first hyphen of t, 0 when there is none
FirstHyphen(t) ==
  IF \E h \in 1..Len(t) : t[h] = "-"
  THEN CHOOSE h \in 1..Len(t) : t[h] = "-" /\ \A j \in 1..(h - 1) : t[j] # "-"
  ELSE 0

\* non-empty prefix, hyphen, digits, any suffix
LokShape(t) ==
  /\ FirstHyphen(t) >= 2
  /\ FirstHyphen(t) < Len(t)
  /\ IsDigit(t[FirstHyphen(t) + 1])

\* t with the digits that follow its first hyphen replaced by n in decimal
LokWithNumber(t, n) ==
  LET h == FirstHyphen(t)
      j == CHOOSE k \in (h + 1)..Len(t) :
             /\ \A x \in (h + 1)..k : IsDigit(t[x])
             /\ k = Len(t) \/ ~IsDigit(t[k + 1])
  IN  SubSeq(t, 1, h) \o IntToStr(n) \o SubSeq(t, j + 1, Len(t))

Completed == tool = "recount" /\ pc = "done" /\ outcome = "completed"

Shown(d) == \E i \in 1..Len(dialogs) : dialogs[i] = d

(***************************************************************************)
(* Properties                                                              *)
(***************************************************************************)

\* C1: for a non-empty set S of positive integers the result of gap detection
\* lists exactly the integers of 1..max(S) that are not in S, strictly
\* ascending, and is empty exactly when S = 1..max(S); for the empty set the
\* result is empty.
C1_GapDetection ==
  (tool = "pure" /\ pc \in {"missing", "done"} /\ \A x \in nums : x >= 1) =>
     IF nums = {} THEN missing = <<>>
     ELSE \E mx \in nums :
            /\ \A x \in nums : x <= mx
            /\ Range(missing) = (1..mx) \ nums
            /\ StrictlyAscending(missing)
            /\ (missing = <<>>) <=> (nums = 1..mx)

C1_Witness ==
  tool = "pure" /\ pc = "missing" /\ nums = {3, 4, 5} /\ missing = <<1, 2>>

\* C2: for a non-empty set S of integers the renumbering map has domain
\* exactly S, is a bijection from S onto 1..|S| and is strictly monotonic.
C2_ReindexMapping ==
  (tool = "pure" /\ pc = "done" /\ nums # {}) =>
     /\ DOMAIN mapping = nums
     /\ {mapping[x] : x \in nums} = 1..Cardinality(nums)
     /\ \A a \in nums : \A b \in nums : a # b => mapping[a] # mapping[b]
     /\ \A a \in nums : \A b \in nums : a < b => mapping[a] < mapping[b]

C2_Witness ==
  /\ tool = "pure" /\ pc = "done" /\ nums = {MinNum, 2, 5}
  /\ mapping[MinNum] = 1 /\ mapping[2] = 2 /\ mapping[5] = 3

\* C3 as stated: after a confirmed renumbering run every designation with a
\* digit run is the ORIGINAL text with its first digit run replaced by the new
\* number, and a designation without digits is unchanged.
C3_Original ==
  Completed =>
    \A f \in Fids :
      committed[f]["oznaczenie"] =
        IF HasDigit(OznAtStart(f))
        THEN WithNumber(OznAtStart(f), NewNumber(f))
        ELSE OznAtStart(f)

\* C3 as amended: after a confirmed renumbering run every designation with a
\* digit run is the original text without its leading and trailing whitespace,
\* with its first digit run replaced by the new number (the 1-based rank of
\* its old number, in decimal without padding); a designation without digits
\* is unchanged.
C3_DesignationRewrite ==
  Completed =>
    \A f \in Fids :
      committed[f]["oznaczenie"] =
        IF HasDigit(OznAtStart(f))
        THEN WithNumber(Strip(OznAtStart(f)), NewNumber(f))
        ELSE OznAtStart(f)

C3_Witness ==
  /\ Completed
  /\ \E f \in Fids : \E g \in Fids :
       /\ OznAtStart(f) = <<"A", "-", "3", "B">>
       /\ committed[f]["oznaczenie"] = <<"A", "-", "2", "B">>
       /\ OznAtStart(g) = <<" ", "A", "2", " ">>
       /\ committed[g]["oznaczenie"] = <<"A", "1">>

NumsNow ==
  {OznInfo(committed[f]["oznaczenie"]).num : f \in Fids} \ {NoNum}

\* C5: after a confirmed and completed renumbering run the numbers read back
\* from the rewritten designations are exactly 1..N, N the number of distinct
\* old values, and gap detection on them finds nothing; the next run on the
\* layer ends with the "no gaps" message and changes nothing.
C5_Idempotence ==
  /\ Completed =>
       /\ NumsNow = 1..Cardinality(OldNums)
       /\ compute_missing_numbers(NumsNow) = <<>>
  /\ (tool = "recount" /\ prevOutcome = "completed") =>
       /\ pc = "done" => outcome = "no_gaps" /\ Shown("info_no_gaps")
       /\ committed = atStart /\ written = EmptyMap /\ buffer = EmptyMap

C5_Witness ==
  /\ tool = "recount" /\ runs = 2 /\ prevOutcome = "completed"
  /\ pc = "done" /\ outcome = "no_gaps" /\ Cardinality(NumsNow) = 2

\* C6: the attribute writes of one invocation form one edit transaction: at
\* any time the persisted values are those of the start of the run, or, once
\* the edit session was committed, those with every write of the run applied;
\* a run that ended in a failure has persisted none of its writes.
C6_AtomicEdit ==
  tool = "recount" =>
    /\ \/ committed = atStart
       \/ /\ pc \in {"finish", "done"} /\ outcome \in {"", "completed"}
          /\ committed = Applied(atStart, written)
    /\ (pc = "done" /\ outcome = "completed") =>
         committed = Applied(atStart, written)
    /\ (pc = "done" /\ outcome = "exception") => committed = atStart

C6_Witness ==
  /\ tool = "recount" /\ pc = "done" /\ outcome = "exception"
  /\ todo # {} /\ written # EmptyMap
  /\ Applied(atStart, written) # atStart
  /\ committed = atStart

BadSchema ==
  /\ tool = "recount" /\ layerKind = "vector"
  /\ \/ "oznaczenie" \notin fields
     \/ fields \cap {"lokalnyId", "loklaneId"} = {}

\* C7: on a layer without the field oznaczenie, or with neither lokalnyId nor
\* loklaneId, the run ends with one warning, before any feature is read,
\* without any attribute write, and the confirmation question is never shown.
C7_SchemaAbort ==
  BadSchema =>
    /\ pc \in {"start", "fields", "done"}
    /\ ~featuresRead
    /\ written = EmptyMap /\ buffer = EmptyMap /\ committed = atStart
    /\ ~Shown("question")
    /\ pc = "done" =>
         /\ outcome = IF "oznaczenie" \notin fields THEN "no_oznaczenie"
                      ELSE "no_lokalnyId"
         /\ dialogs = <<IF "oznaczenie" \notin fields THEN "warn_no_oznaczenie"
                        ELSE "warn_no_lokalnyId">>

C7_Witness ==
  /\ BadSchema /\ pc = "done" /\ fields = {"oznaczenie", "loklaneId"} \ {"loklaneId"}
  /\ Cardinality(Fids) = 2 /\ dialogs = <<"warn_no_lokalnyId">>

\* a run that returned without touching the layer and without the closing message
Aborted ==
  /\ pc = "done"
  /\ committed = atStart /\ written = EmptyMap /\ buffer = EmptyMap /\ ~editing
  /\ ~Shown("info_completed")

\* C9: an attribute write happens only after gaps were detected and the user
\* answered Yes; when the layer is not a vector layer, no designation holds a
\* number, no gap is found, or the user answers No or dismisses the question,
\* the run returns at once with every attribute unchanged and without the
\* completion message.
C9_ConfirmationGates ==
  tool = "recount" =>
    /\ (written # EmptyMap \/ buffer # EmptyMap \/ committed # atStart \/ editing)
         => (missing # <<>> /\ Shown("question") /\ resp_fix = "Yes")
    /\ (layerKind # "vector" /\ pc # "start") => Aborted /\ outcome = "not_vector"
    /\ (featuresRead /\ nums = {}) => Aborted /\ outcome = "no_numbers"
    /\ (featuresRead /\ nums # {} /\ missing = <<>>)
         => Aborted /\ outcome = "no_gaps"
    /\ resp_fix \in {"No", "Dismissed"} => Aborted /\ outcome = "declined"

C9_Witness ==
  /\ tool = "recount" /\ pc = "done" /\ resp_fix = "Dismissed"
  /\ missing # <<>> /\ Cardinality(Fids) = 2 /\ outcome = "declined"

\* C10: whenever the run ends with the "no gaps found" message, the distinct
\* numbers read from the designations are exactly 1..N.
C10_NoGapsMeansOneToN ==
  (tool = "recount" /\ pc = "done" /\ outcome = "no_gaps") =>
     nums = 1..Cardinality(nums)

TplSuccesses == {i \in 1..Len(template_layers) : template_layers[i].memValid}

TplKinds == {tdialogs[i].kind : i \in 1..Len(tdialogs)}

\* the names of the templates among the first n whose layer could be built
RECURSIVE TplNames(_)
TplNames(n) ==
  IF n = 0 THEN <<>>
  ELSE TplNames(n - 1) \o
         (IF template_layers[n].memValid THEN <<template_layers[n].name>>
          ELSE <<>>)

\* C8: in a template run that reached layer creation a template whose memory
\* layer cannot be built is skipped and every other template has its layer in
\* the project and in the group POG SZABLONY; the run reports an error exactly
\* when no layer was created, and otherwise the report lists exactly the names
\* of the layers created, one per successful template.
C8_TemplateBatch ==
  (tool = "template" /\ crs_authid # <<>>) =>
    LET seen == IF tpc = "done" THEN Len(template_layers) ELSE ti - 1
        ok   == {i \in TplSuccesses : i <= seen}
    IN  /\ GroupName \in groups
        /\ {l.tmpl : l \in projectLayers} = ok
        /\ {groupLayers[i].tmpl : i \in 1..Len(groupLayers)} = ok
        /\ Len(groupLayers) = Cardinality(ok)
        /\ \A l \in projectLayers : l.name = template_layers[l.tmpl].name
        /\ created_layers = TplNames(seen)
        /\ tpc = "done" =>
             /\ ("warn_none_created" \in TplKinds) <=> (TplSuccesses = {})
             /\ ("info_created" \in TplKinds) <=> (TplSuccesses # {})
             /\ \A i \in 1..Len(tdialogs) :
                  tdialogs[i].kind = "info_created" =>
                    tdialogs[i].names = TplNames(Len(template_layers))

C8_Witness ==
  /\ tool = "template" /\ tpc = "done" /\ Len(template_layers) = 3
  /\ template_layers[1].memValid /\ ~template_layers[2].memValid
  /\ template_layers[3].memValid
  /\ Cardinality(projectLayers) = 2
  /\ \E i \in 1..Len(tdialogs) :
       /\ tdialogs[i].kind = "info_created"
       /\ tdialogs[i].names = <<template_layers[1].name, template_layers[3].name>>

=============================================================================
